---------------------------- MODULE Spec2Model ----------------------------
(***************************************************************************)
(* Model of the Markdown documentation server (src/server.js): the heading *)
(* slug code, the table-of-contents generator generateTOC, the heading     *)
(* hook renderer.heading, and the GET / handler that composes the page.    *)
(*                                                                         *)
(* A JavaScript string is a sequence of one-character strings.  The fixed  *)
(* pieces of the template literals are kept as single elements (chunks),   *)
(* the interpolated values are spliced in character by character.          *)
(***************************************************************************)
EXTENDS Integers, Sequences, FiniteSets, TLC

(***************************************************************************)
(* Character classes of the JavaScript regular expressions in use.         *)
(***************************************************************************)
\* \w is [A-Za-z0-9_]; \W is its complement.
UpperChars == {"A", "B", "O"}
LowerChars == {"a", "b", "c", "e", "j", "o", "t"}
DigitChars == {"1"}
WordChars == UpperChars \cup LowerChars \cup DigitChars \cup {"_"}

\* \s, and the characters String.prototype.trim removes.
WhiteSpace == {" ", "\t", "\n", "\r"}

\* The characters '.' does not match.
LineTerminators == {"\n", "\r"}

\* String.prototype.toLowerCase, one character.
LowerOf(c) ==
  CASE c = "A" -> "a"
    [] c = "B" -> "b"
    [] c = "O" -> "o"
    [] OTHER -> c

(***************************************************************************)
(* JavaScript string built-ins.                                            *)
(***************************************************************************)
toLowerCase(s) == [i \in 1..Len(s) |-> LowerOf(s[i])]

RECURSIVE SkipWhile(_, _)
\* The suffix of s left after its longest prefix of characters in class.
SkipWhile(s, class) ==
  IF s # <<>> /\ Head(s) \in class THEN SkipWhile(Tail(s), class) ELSE s

RECURSIVE TakeUntil(_, _)
\* The longest prefix of s holding no character of class.
TakeUntil(s, class) ==
  IF s = <<>> \/ Head(s) \in class THEN <<>>
  ELSE <<Head(s)>> \o TakeUntil(Tail(s), class)

RECURSIVE DropTrailing(_, _)
DropTrailing(s, class) ==
  IF s # <<>> /\ s[Len(s)] \in class
  THEN DropTrailing(SubSeq(s, 1, Len(s) - 1), class)
  ELSE s

\* String.prototype.trim
trim(s) == DropTrailing(SkipWhile(s, WhiteSpace), WhiteSpace)

RECURSIVE SkipNonWord(_)
\* The suffix of s left after the longest match of \W+ at its start.
SkipNonWord(s) ==
  IF s # <<>> /\ Head(s) \notin WordChars THEN SkipNonWord(Tail(s)) ELSE s

RECURSIVE replaceNonWord_each(_)
\* .replace(/\W/g, '-'): one hyphen per character, runs not collapsed.
replaceNonWord_each(s) ==
  IF s = <<>> THEN <<>>
  ELSE IF Head(s) \in WordChars THEN <<Head(s)>> \o replaceNonWord_each(Tail(s))
  ELSE <<"-">> \o replaceNonWord_each(Tail(s))

RECURSIVE replaceNonWordRuns(_)
\* .replace(/\W+/g, '-'): scanning left to right, each match of \W+ is the
\* longest run of non-word characters at that place, replaced by one '-'.
replaceNonWordRuns(s) ==
  IF s = <<>> THEN <<>>
  ELSE IF Head(s) \in WordChars THEN <<Head(s)>> \o replaceNonWordRuns(Tail(s))
  ELSE <<"-">> \o replaceNonWordRuns(SkipNonWord(s))

\* .replace(/^-|-$/, ''), the g flag forgotten: the first match only.
stripEdgeHyphens_first_only(s) ==
  IF s # <<>> /\ Head(s) = "-" THEN Tail(s)
  ELSE IF s # <<>> /\ s[Len(s)] = "-" THEN SubSeq(s, 1, Len(s) - 1)
  ELSE s

\* .replace(/^-|-$/g, ''): a '-' at the start is removed, and a '-' at the
\* end of what follows it is removed.
stripEdgeHyphens(s) ==
  LET a == IF s # <<>> /\ Head(s) = "-" THEN Tail(s) ELSE s
  IN  IF a # <<>> /\ a[Len(a)] = "-" THEN SubSeq(a, 1, Len(a) - 1) ELSE a

RECURSIVE split(_, _)
\* String.prototype.split(sep) for a one-character separator: the pieces
\* between the separators, in order; the empty string gives one empty piece.
split(s, sep) ==
  LET first == TakeUntil(s, {sep})
  IN  IF Len(first) = Len(s) THEN <<first>>
      ELSE <<first>> \o split(SubSeq(s, Len(first) + 2, Len(s)), sep)

(***************************************************************************)
(* The slug code, written out twice in the source.                         *)
(***************************************************************************)
tocSlug_case_kept(title) == stripEdgeHyphens(replaceNonWordRuns(title))

\* /\W/g for /\W+/g: runs are not collapsed.
tocSlug_each_replaced(title) ==
  stripEdgeHyphens(replaceNonWord_each(toLowerCase(title)))

\* The last replace forgotten: hyphens at the ends are kept.
tocSlug_edges_kept(title) == replaceNonWordRuns(toLowerCase(title))

\* .replace(/\W+/g, '') for .replace(/\W+/g, '-'): the words run together.
tocSlug_hyphens_dropped(title) ==
  SelectSeq(toLowerCase(title), LAMBDA c : c \in WordChars)

tocSlug_markers_dropped(title) ==
  stripEdgeHyphens(replaceNonWordRuns(toLowerCase(
    SelectSeq(title, LAMBDA c : c # "*"))))

\* generateTOC: title.toLowerCase().replace(/\W+/g, '-').replace(/^-|-$/g, '')
tocSlug(title) == stripEdgeHyphens(replaceNonWordRuns(toLowerCase(title)))

rendererSlug_runs_kept(text) ==
  stripEdgeHyphens(replaceNonWord_each(toLowerCase(text)))

\* renderer.heading: String(text).toLowerCase().replace(/\W+/g, '-')
\*                                 .replace(/^-|-$/g, '')
rendererSlug(text) == stripEdgeHyphens(replaceNonWordRuns(toLowerCase(text)))

(***************************************************************************)
(* generateTOC                                                             *)
(***************************************************************************)
\* The largest repetition count of '#' in headingRegex.
MaxLevel == 6

NoMatch == [matched |-> FALSE, hashes |-> <<>>, rest |-> <<>>]

\* The repetition counts k of #{1,6} for which ^(#{k})\s+ matches the line.
HashCounts(line, most) ==
  {k \in 1..most :
     /\ k + 1 <= Len(line)
     /\ \A i \in 1..k : line[i] = "#"
     /\ line[k + 1] \in WhiteSpace}

headingRegex_any_count(line) ==
  LET ks == HashCounts(line, Len(line))
  IN  IF ks = {} THEN NoMatch
      ELSE LET k == CHOOSE x \in ks : \A y \in ks : y <= x
               after == SkipWhile(SubSeq(line, k + 1, Len(line)), WhiteSpace)
           IN  [matched |-> TRUE,
                hashes  |-> SubSeq(line, 1, k),
                rest    |-> TakeUntil(after, LineTerminators)]

\* line.match(/^(#{1,6})\s+(.*)/): group 1 is the hashes (greedy, so the
\* largest count that lets the rest match), \s+ takes the whole run of white
\* space after them, and group 2 runs to the first character '.' rejects.
headingRegex(line) ==
  LET ks == HashCounts(line, MaxLevel)
  IN  IF ks = {} THEN NoMatch
      ELSE LET k == CHOOSE x \in ks : \A y \in ks : y <= x
               after == SkipWhile(SubSeq(line, k + 1, Len(line)), WhiteSpace)
           IN  [matched |-> TRUE,
                hashes  |-> SubSeq(line, 1, k),
                rest    |-> TakeUntil(after, LineTerminators)]

RECURSIVE collectItems_newest_first(_)
collectItems_newest_first(lines) ==
  IF lines = <<>> THEN <<>>
  ELSE LET match == headingRegex(Head(lines))
           later == collectItems_newest_first(Tail(lines))
       IN  IF match.matched
           THEN LET title == trim(match.rest)
                IN  later \o <<[level |-> Len(match.hashes),
                                title |-> title,
                                slug  |-> tocSlug(title)]>>
           ELSE later

\* The records in line order, a title that was seen before left out.
collectItems_skip_repeats(lines) ==
  LET back == collectItems_newest_first(lines)
      n    == Len(back)
      all  == [i \in 1..n |-> back[n + 1 - i]]
      keep == {i \in 1..n : \A j \in 1..(i - 1) : all[j].title # all[i].title}
      nth(k) == CHOOSE i \in keep : Cardinality({j \in keep : j < i}) = k - 1
  IN  [k \in 1..Cardinality(keep) |-> all[nth(k)]]

RECURSIVE collectOutsideFences(_, _)
collectOutsideFences(lines, inFence) ==
  IF lines = <<>> THEN <<>>
  ELSE LET line  == Head(lines)
           fence == Len(line) >= 3 /\ \A i \in 1..3 : line[i] = "~"
           match == headingRegex(line)
       IN  IF fence THEN collectOutsideFences(Tail(lines), ~inFence)
           ELSE IF match.matched /\ ~inFence
           THEN LET title == trim(match.rest)
                IN  <<[level |-> Len(match.hashes),
                       title |-> title,
                       slug  |-> tocSlug(title)]>>
                      \o collectOutsideFences(Tail(lines), inFence)
           ELSE collectOutsideFences(Tail(lines), inFence)

collectItems_outside_fences(lines) == collectOutsideFences(lines, FALSE)

RECURSIVE collectItems_untrimmed(_)
collectItems_untrimmed(lines) ==
  IF lines = <<>> THEN <<>>
  ELSE LET match == headingRegex(Head(lines))
           later == collectItems_untrimmed(Tail(lines))
       IN  IF match.matched
           THEN <<[level |-> Len(match.hashes),
                   title |-> match.rest,
                   slug  |-> tocSlug(match.rest)]>> \o later
           ELSE later

RECURSIVE collectItems_skip_empty(_)
\* A matching line whose title is empty pushes nothing.
collectItems_skip_empty(lines) ==
  IF lines = <<>> THEN <<>>
  ELSE LET match == headingRegex(Head(lines))
           later == collectItems_skip_empty(Tail(lines))
       IN  IF match.matched /\ trim(match.rest) # <<>>
           THEN LET title == trim(match.rest)
                IN  <<[level |-> Len(match.hashes),
                       title |-> title,
                       slug  |-> tocSlug(title)]>> \o later
           ELSE later

RECURSIVE collectItems(_)
\* lines.forEach: a matching line pushes { level, title, slug }.
collectItems(lines) ==
  IF lines = <<>> THEN <<>>
  ELSE LET match == headingRegex(Head(lines))
           later == collectItems(Tail(lines))
       IN  IF match.matched
           THEN LET title == trim(match.rest)
                IN  <<[level |-> Len(match.hashes),
                       title |-> title,
                       slug  |-> tocSlug(title)]>> \o later
           ELSE later

NavOpen ==
  "<nav id=\"toc\" style=\"margin-bottom:20px; padding:10px; border:1px solid #ddd; background:#f0f0f0; border-radius:4px;\"><h2>Table of Contents</h2>"

NavClose == "</nav>"

\* The pixels of indentation per heading level below the first.
IndentStep == 20

tocEntry_links_to_title(item) ==
  <<"<div style=\"margin-left: ", ToString((item.level - 1) * IndentStep),
    "px;\"><a href=\"#">> \o item.title \o <<"\">">> \o item.title
    \o <<"</a></div>">>

tocEntry_level_times_step(item) ==
  <<"<div style=\"margin-left: ", ToString(item.level * IndentStep),
    "px;\"><a href=\"#">> \o item.slug \o <<"\">">> \o item.title
    \o <<"</a></div>">>

\* `<div style="margin-left: ${(item.level - 1) * 20}px;">
\*    <a href="#${item.slug}">${item.title}</a></div>`
tocEntry(item) ==
  <<"<div style=\"margin-left: ", ToString((item.level - 1) * IndentStep),
    "px;\"><a href=\"#">> \o item.slug \o <<"\">">> \o item.title
    \o <<"</a></div>">>

RECURSIVE tocEntries(_)
\* tocItems.forEach((item) => { tocHtml += ... })
tocEntries(items) ==
  IF items = <<>> THEN <<>>
  ELSE tocEntry(Head(items)) \o tocEntries(Tail(items))

tocMarkup_always_nav(items) == <<NavOpen>> \o tocEntries(items) \o <<NavClose>>

\* The string generateTOC returns for the items it collected.
tocMarkup(items) ==
  IF Len(items) = 0 THEN <<>>
  ELSE <<NavOpen>> \o tocEntries(items) \o <<NavClose>>

\* The items generateTOC collects from the document.
tocItemsOf(markdownData) == collectItems(split(markdownData, "\n"))

generateTOC(markdownData) == tocMarkup(tocItemsOf(markdownData))

(***************************************************************************)
(* renderer.heading                                                        *)
(***************************************************************************)
headingLog(text, level, slug) ==
  <<"Generated header: \"">> \o text \o <<"\" (level ", ToString(level),
    ") with slug: \"">> \o slug \o <<"\"">>

headingMarkup_id_is_text(level, text, slug) ==
  <<"<h", ToString(level), " id=\"">> \o text \o <<"\">">> \o text
    \o <<"</h", ToString(level), ">">>

\* `<h${level} id="${slug}">${text}</h${level}>`
headingMarkup(level, text, slug) ==
  <<"<h", ToString(level), " id=\"">> \o slug \o <<"\">">> \o text
    \o <<"</h", ToString(level), ">">>

\* renderer.heading(token): the line it logs and the markup it returns.
heading(token) ==
  LET level == token.depth
      text  == token.text
      slug  == rendererSlug(text)
  IN  [log  |-> headingLog(text, level, slug),
       html |-> headingMarkup(level, text, slug)]

(***************************************************************************)
(* The conversion engine, marked.parse(markdownData, { renderer, mangle:    *)
(* false }).  The engine is an external library: only what it does at the  *)
(* boundary is modelled.  It breaks the text into lines (a carriage return *)
(* ends a line too), keeps track of fenced code blocks, and calls          *)
(* renderer.heading once for every heading line outside a fence.  The text *)
(* of the token is the heading's text either as written or with its        *)
(* emphasis resolved: which of the two depends on the engine.              *)
(***************************************************************************)
RECURSIVE NormalizeNewlines(_)
NormalizeNewlines(s) ==
  IF s = <<>> THEN <<>>
  ELSE IF Head(s) = "\r" /\ Len(s) >= 2 /\ s[2] = "\n"
       THEN <<"\n">> \o NormalizeNewlines(Tail(Tail(s)))
  ELSE IF Head(s) = "\r" THEN <<"\n">> \o NormalizeNewlines(Tail(s))
  ELSE <<Head(s)>> \o NormalizeNewlines(Tail(s))

IsFence(line) ==
  Len(line) >= 3 /\ \A i \in 1..3 : line[i] = "~"

\* The line without the up to three spaces a heading may be indented by.
Unindented(line) ==
  LET ns == {n \in 0..3 : n <= Len(line) /\ \A i \in 1..n : line[i] = " "}
  IN  SubSeq(line, (CHOOSE n \in ns : \A m \in ns : m <= n) + 1, Len(line))

\* The number of '#' of an ATX heading line, 0 for any other line: 1 to 6
\* '#', then white space or the end of the line.
EngineDepth(line) ==
  LET l  == Unindented(line)
      ks == {k \in 1..6 : /\ k <= Len(l)
                          /\ \A i \in 1..k : l[i] = "#"
                          /\ (k = Len(l) \/ l[k + 1] \in WhiteSpace)}
  IN  IF ks = {} THEN 0 ELSE CHOOSE k \in ks : TRUE

\* The text of an ATX heading line.
EngineText(line) ==
  LET l == Unindented(line)
  IN  trim(SubSeq(l, EngineDepth(line) + 1, Len(l)))

RECURSIVE EngineLex(_, _)
EngineLex(lines, inFence) ==
  IF lines = <<>> THEN <<>>
  ELSE LET line == Head(lines)
           more == Tail(lines)
       IN  IF IsFence(line) THEN EngineLex(more, ~inFence)
           ELSE IF inFence
                THEN <<[type |-> "code", depth |-> 0, text |-> line]>>
                       \o EngineLex(more, inFence)
           ELSE IF EngineDepth(line) > 0
                THEN <<[type  |-> "heading",
                        depth |-> EngineDepth(line),
                        text  |-> EngineText(line)]>>
                       \o EngineLex(more, inFence)
           ELSE IF trim(line) = <<>> THEN EngineLex(more, inFence)
           ELSE <<[type |-> "paragraph", depth |-> 0, text |-> line]>>
                  \o EngineLex(more, inFence)

\* The block tokens of the document, in document order.
EngineTokens(markdownData) ==
  EngineLex(split(NormalizeNewlines(markdownData), "\n"), FALSE)

\* The places of the two '*' of an emphasised word, *word*, in the text.
EmphasisPairs(text) ==
  {p \in (1..Len(text)) \X (1..Len(text)) :
     /\ p[1] + 1 < p[2]
     /\ text[p[1]] = "*" /\ text[p[2]] = "*"
     /\ \A i \in (p[1] + 1)..(p[2] - 1) : text[i] \in WordChars}

\* The text with its first emphasised word replaced by the word.
ResolveInline(text) ==
  IF EmphasisPairs(text) = {} THEN text
  ELSE LET p == CHOOSE q \in EmphasisPairs(text) :
                  \A o \in EmphasisPairs(text) : q[1] <= o[1]
       IN  SubSeq(text, 1, p[1] - 1) \o SubSeq(text, p[1] + 1, p[2] - 1)
             \o SubSeq(text, p[2] + 1, Len(text))

\* The texts the engine may hand to renderer.heading for a heading.
EngineTexts(text) == {text, ResolveInline(text)}

\* What is left of the engine's work when it has failed.
EngineError == [type |-> "error", depth |-> 0, text |-> <<>>]

\* The engine's own rendering of a block that is not a heading.
EngineBlock(token) ==
  IF token.type = "code"
  THEN <<"<pre><code>">> \o token.text \o <<"</code></pre>">>
  ELSE <<"<p>">> \o token.text \o <<"</p>">>

(***************************************************************************)
(* The GET / handler                                                       *)
(***************************************************************************)
Notice ==
  "<p><em>Note: No headings found for navigation. Please ensure your Markdown file uses proper header syntax (e.g., \"## Creational Design Patterns\").</em></p>"

ReadFailure == "Internal Server Error: Could not read Markdown file."

\* The page template around ${htmlContent}: document head, styles and page
\* header before it, scripts and closing tags after it.
PageHead == "<!DOCTYPE html><html lang=\"en\"><head>...</head><body><div class=\"container\"><div class=\"header\">...</div>"

PageTail == "</div><script>...</script></body></html>"

\* The text the regular expression /\[object Object\]/ matches.
ObjectObject ==
  <<"[", "o", "b", "j", "e", "c", "t", " ", "O", "b", "j", "e", "c", "t", "]">>

RECURSIVE removeObjectObject(_)
\* htmlContent.replace(/\[object Object\]/g, ''): one pass from the left;
\* what a removal brings together is not looked at again.
removeObjectObject(s) ==
  IF s = <<>> THEN <<>>
  ELSE IF /\ Len(s) >= Len(ObjectObject)
          /\ SubSeq(s, 1, Len(ObjectObject)) = ObjectObject
       THEN removeObjectObject(SubSeq(s, Len(ObjectObject) + 1, Len(s)))
       ELSE <<Head(s)>> \o removeObjectObject(Tail(s))

\* The replace moved below the if/else that prepends.
compose_then_strip(toc, body) ==
  removeObjectObject(IF toc = <<>> THEN <<Notice>> \o body ELSE toc \o body)

compose_toc_only(toc, body) == toc \o body

\* if (!tocHtml) { htmlContent = note + htmlContent }
\* else { htmlContent = tocHtml + htmlContent }
compose(toc, body) ==
  IF toc = <<>> THEN <<Notice>> \o body ELSE toc \o body

fullHtml(content) == <<PageHead>> \o content \o <<PageTail>>

(***************************************************************************)
(* The same core in the second server with a table of contents             *)
(* (src/unnamed/part_000), translated from its own text.                   *)
(***************************************************************************)
\* renderer.heading: String(text).toLowerCase().replace(/\W+/g, '-')
\*                                 .replace(/^-|-$/g, '')
rendererSlug_000(text) ==
  stripEdgeHyphens(replaceNonWordRuns(toLowerCase(text)))

\* renderer.heading(token): the line it logs and the markup it returns.
heading_000(token) ==
  LET level == token.depth
      text  == token.text
      slug  == rendererSlug_000(text)
  IN  [log  |-> <<"Generated header: \"">> \o text
                  \o <<"\" (level ", ToString(level), ") with slug: \"">>
                  \o slug \o <<"\"">>,
       html |-> <<"<h", ToString(level), " id=\"">> \o slug \o <<"\">">>
                  \o text \o <<"</h", ToString(level), ">">>]

\* /^(#{1,6})\s+(.*)/ matched against a line.
headingRegex_000(line) ==
  LET ks == HashCounts(line, 6)
  IN  IF ks = {} THEN NoMatch
      ELSE LET k == CHOOSE x \in ks : \A y \in ks : y <= x
               after == SkipWhile(SubSeq(line, k + 1, Len(line)), WhiteSpace)
           IN  [matched |-> TRUE,
                hashes  |-> SubSeq(line, 1, k),
                rest    |-> TakeUntil(after, LineTerminators)]

RECURSIVE collectItems_000(_)
\* lines.forEach: a matching line pushes { level, title, slug }.
collectItems_000(lines) ==
  IF lines = <<>> THEN <<>>
  ELSE LET match == headingRegex_000(Head(lines))
           later == collectItems_000(Tail(lines))
       IN  IF match.matched
           THEN LET level == Len(match.hashes)
                    title == trim(match.rest)
                    slug  == stripEdgeHyphens(
                               replaceNonWordRuns(toLowerCase(title)))
                IN  <<[level |-> level, title |-> title, slug |-> slug]>>
                      \o later
           ELSE later

tocItemsOf_000(markdownData) == collectItems_000(split(markdownData, "\n"))

NavOpen_000 ==
  "<nav id=\"toc\" style=\"margin-bottom:20px; padding:10px; border:1px solid #ddd; background:#f0f0f0; border-radius:4px;\"><h2>Table of Contents</h2>"

\* The step of the second server taken for 25 pixels.
tocEntry_000_wider_step(item) ==
  <<"<div style=\"margin-left: ", ToString((item.level - 1) * 25),
    "px;\"><a href=\"#">> \o item.slug \o <<"\">">> \o item.title
    \o <<"</a></div>">>

\* `<div style="margin-left: ${(item.level - 1) * 20}px;">
\*    <a href="#${item.slug}">${item.title}</a></div>`
tocEntry_000(item) ==
  <<"<div style=\"margin-left: ", ToString((item.level - 1) * 20),
    "px;\"><a href=\"#">> \o item.slug \o <<"\">">> \o item.title
    \o <<"</a></div>">>

RECURSIVE tocEntries_000(_)
tocEntries_000(items) ==
  IF items = <<>> THEN <<>>
  ELSE tocEntry_000(Head(items)) \o tocEntries_000(Tail(items))

generateTOC_000(markdownData) ==
  LET tocItems_000 == tocItemsOf_000(markdownData)
  IN  IF Len(tocItems_000) = 0 THEN <<>>
      ELSE <<NavOpen_000>> \o tocEntries_000(tocItems_000) \o <<"</nav>">>

RECURSIVE removeObjectObject_000(_)
\* htmlContent.replace(/\[object Object\]/g, '')
removeObjectObject_000(s) ==
  IF s = <<>> THEN <<>>
  ELSE IF /\ Len(s) >= 15
          /\ SubSeq(s, 1, 15)
               = <<"[", "o", "b", "j", "e", "c", "t", " ",
                   "O", "b", "j", "e", "c", "t", "]">>
       THEN removeObjectObject_000(SubSeq(s, 16, Len(s)))
       ELSE <<Head(s)>> \o removeObjectObject_000(Tail(s))

Notice_000 ==
  "<p><em>Note: No headings found for navigation. Please ensure your Markdown file uses proper header syntax (e.g., \"## Creational Design Patterns\").</em></p>"

\* if (!tocHtml) { htmlContent = note + htmlContent }
\* else { htmlContent = tocHtml + htmlContent }
compose_000(toc, body) ==
  IF toc = <<>> THEN <<Notice_000>> \o body ELSE toc \o body

(***************************************************************************)
(* The server without a table of contents (src/unnamed/part_001).  Its     *)
(* renderer.heading takes (text, level, raw, slugger) and guards against   *)
(* arguments that are no strings, so the arguments are JavaScript values.  *)
(***************************************************************************)
Str(chars) == [type |-> "string", chars |-> chars, n |-> 0]
Num(n) == [type |-> "number", chars |-> <<>>, n |-> n]
Undefined == [type |-> "undefined", chars |-> <<>>, n |-> 0]
Object == [type |-> "object", chars |-> <<>>, n |-> 0]

\* String(value)
String(value) ==
  CASE value.type = "string" -> value.chars
    [] value.type = "number" -> <<ToString(value.n)>>
    [] value.type = "undefined" ->
         <<"u", "n", "d", "e", "f", "i", "n", "e", "d">>
    [] OTHER -> ObjectObject

\* ${level} in the template literal, kept as one piece.
LevelText(level) ==
  IF level.type = "number" THEN ToString(level.n) ELSE "undefined"

\* The characters the engine's slugger drops.
SluggerDrops == {"!", "*", "[", "]"}

\* slugger.slug(value) of the engine: lowercase, trim, drop punctuation,
\* one hyphen for each white-space character.
SluggerSlug(value) ==
  LET kept == SelectSeq(trim(toLowerCase(value)),
                        LAMBDA c : c \notin SluggerDrops)
  IN  [i \in 1..Len(kept) |-> IF kept[i] \in WhiteSpace THEN "-" ELSE kept[i]]

\* raw ignored: the id always comes from text.
heading_001_text_only(text, level, raw, slugger) ==
  LET base == String(text)
      slug == IF slugger.type = "object" THEN SluggerSlug(base)
              ELSE stripEdgeHyphens(replaceNonWordRuns(toLowerCase(base)))
  IN  [asked |-> IF slugger.type = "object" THEN <<base>> ELSE <<>>,
       html  |-> <<"<h", LevelText(level), " id=\"">> \o slug \o <<"\">">>
                   \o String(text) \o <<"</h", LevelText(level), ">">>]

\* The slugger never asked: the simple conversion always.
heading_001_own_slug(text, level, raw, slugger) ==
  LET base == IF raw.type = "string" THEN raw.chars ELSE String(text)
      slug == stripEdgeHyphens(replaceNonWordRuns(toLowerCase(base)))
  IN  [asked |-> <<>>,
       html  |-> <<"<h", LevelText(level), " id=\"">> \o slug \o <<"\">">>
                   \o String(text) \o <<"</h", LevelText(level), ">">>]

\* renderer.heading(text, level, raw, slugger): what it asks the slugger
\* for, if anything, and the markup it returns.
heading_001(text, level, raw, slugger) ==
  LET base == IF raw.type = "string" THEN raw.chars ELSE String(text)
      slug == IF slugger.type = "object" THEN SluggerSlug(base)
              ELSE stripEdgeHyphens(replaceNonWordRuns(toLowerCase(base)))
  IN  [asked |-> IF slugger.type = "object" THEN <<base>> ELSE <<>>,
       html  |-> <<"<h", LevelText(level), " id=\"">> \o slug \o <<"\">">>
                   \o String(text) \o <<"</h", LevelText(level), ">">>]

PageHead_001 == "<!DOCTYPE html><html lang=\"en\"><head>...</head><body><div class=\"container\">"

PageTail_001 == "</div><script>...</script></body></html>"

fullHtml_001(content) == <<PageHead_001>> \o content \o <<PageTail_001>>

(***************************************************************************)
(* State.  README.md is the one document the server serves; every request  *)
(* has its own locals, and console is the process's console.               *)
(***************************************************************************)
VARIABLES
  file,          \* the text of README.md (server.js:63)
  pc,            \* where each request stands in the handler (62-260)
  markdownData,  \* the text the request read (65)
  tocItems,      \* the items generateTOC collected (32, logged at 47)
  tocHtml,       \* the string generateTOC returned (74)
  tokens,        \* the blocks the engine has still to render (78)
  calls,         \* the calls of renderer.heading: arguments and result (13-24)
  htmlContent,   \* the request's htmlContent (78-89)
  response,      \* what was sent on res (68-70, 259)
  console        \* the lines written to the console (20, 47, 67)

vars == <<file, pc, markdownData, tocItems, tocHtml, tokens, calls,
          htmlContent, response, console>>

Requests == {1, 2}

(***************************************************************************)
(* The documents checked.                                                  *)
(***************************************************************************)
\* The longest heading title enumerated character by character.
MaxTitleLen == 4
\* The most '#' a line starts with.
MaxHashes == 7
\* The longest remainder of a line after its '#'.
MaxRestLen == 3
\* The most lines of a document put together from whole lines.
MaxLines == 3

Strings(chars, n) == UNION {[1..k -> chars] : k \in 0..n}

TitleChars == {"a", "B", "1", "_", " ", "!", "*"}

\* One level-1 heading line with every title up to MaxTitleLen.
TitleDocs == {<<"#", " ">> \o t : t \in Strings(TitleChars, MaxTitleLen)}

Hashes(n) == [i \in 1..n |-> "#"]

\* One line: something or nothing in front, some '#', white space or none
\* behind them, and a remainder.
LineDocs ==
  {lead \o Hashes(n) \o gap \o rest :
     lead \in {<<>>, <<" ">>, <<"a">>},
     n \in 0..MaxHashes,
     gap \in {<<>>, <<" ">>, <<"\t">>, <<"\r">>, <<" ", " ">>},
     rest \in Strings({" ", "\r", "a"}, MaxRestLen)}

DocLines ==
  { <<"#", " ", "a">>,
    <<"#", "#", " ", "B", " ", "a">>,
    <<"#", "#", "#", " ", "a", "*", "b", "*">>,
    <<"#", "a">>,
    <<"a">>,
    <<"~", "~", "~">>,
    <<>> }

RECURSIVE Join(_)
Join(lines) ==
  IF Len(lines) = 1 THEN lines[1]
  ELSE lines[1] \o <<"\n">> \o Join(Tail(lines))

\* Documents of up to MaxLines lines.
MultiDocs ==
  {Join(ls) : ls \in UNION {[1..k -> DocLines] : k \in 1..MaxLines}}

Docs == TitleDocs \cup LineDocs \cup MultiDocs

(***************************************************************************)
(* Init and the steps of a request.                                        *)
(***************************************************************************)
InitWith(docs, arriving) ==
  /\ file \in docs
  /\ pc = [r \in Requests |-> IF r \in arriving THEN "waiting" ELSE "closed"]
  /\ markdownData = [r \in Requests |-> <<>>]
  /\ tocItems = [r \in Requests |-> <<>>]
  /\ tocHtml = [r \in Requests |-> <<>>]
  /\ tokens = [r \in Requests |-> <<>>]
  /\ calls = [r \in Requests |-> <<>>]
  /\ htmlContent = [r \in Requests |-> <<>>]
  /\ response = [r \in Requests |-> <<>>]
  /\ console = <<>>

Init == InitWith(Docs, {1})

\* app.get('/', ...): the request arrives and fs.readFile is started.
Get(r) ==
  /\ pc[r] = "waiting"
  /\ pc' = [pc EXCEPT ![r] = "reading"]
  /\ UNCHANGED <<file, markdownData, tocItems, tocHtml, tokens, calls,
                 htmlContent, response, console>>

ReadError_no_return(r) ==
  /\ pc[r] = "reading"
  /\ console' = Append(console, [stream |-> "error",
                                 line   |-> <<"Error reading Markdown file:">>,
                                 items  |-> <<>>])
  /\ response' = [response EXCEPT
                    ![r] = Append(@, [status |-> 500,
                                      body   |-> <<ReadFailure>>])]
  /\ pc' = [pc EXCEPT ![r] = "parse"]
  /\ UNCHANGED <<file, markdownData, tocItems, tocHtml, tokens, calls,
                 htmlContent>>

\* The readFile callback with err set: log it and answer 500.
ReadError(r) ==
  /\ pc[r] = "reading"
  /\ console' = Append(console, [stream |-> "error",
                                 line   |-> <<"Error reading Markdown file:">>,
                                 items  |-> <<>>])
  /\ response' = [response EXCEPT
                    ![r] = Append(@, [status |-> 500,
                                      body   |-> <<ReadFailure>>])]
  /\ pc' = [pc EXCEPT ![r] = "done"]
  /\ UNCHANGED <<file, markdownData, tocItems, tocHtml, tokens, calls,
                 htmlContent>>

GenerateTOC_shared_toc(r) ==
  /\ pc[r] = "reading"
  /\ markdownData' = [markdownData EXCEPT ![r] = file]
  /\ tocItems' = [tocItems EXCEPT ![r] = tocItemsOf(file)]
  /\ tocHtml' = [q \in Requests |-> generateTOC(file)]
  /\ console' = Append(console, [stream |-> "log",
                                 line   |-> <<"Generated TOC Items:">>,
                                 items  |-> tocItemsOf(file)])
  /\ pc' = [pc EXCEPT ![r] = "parse"]
  /\ UNCHANGED <<file, tokens, calls, htmlContent, response>>

\* The readFile callback with the text: const tocHtml = generateTOC(...).
GenerateTOC(r) ==
  /\ pc[r] = "reading"
  /\ markdownData' = [markdownData EXCEPT ![r] = file]
  /\ tocItems' = [tocItems EXCEPT ![r] = tocItemsOf(file)]
  /\ tocHtml' = [tocHtml EXCEPT ![r] = generateTOC(file)]
  /\ console' = Append(console, [stream |-> "log",
                                 line   |-> <<"Generated TOC Items:">>,
                                 items  |-> tocItemsOf(file)])
  /\ pc' = [pc EXCEPT ![r] = "parse"]
  /\ UNCHANGED <<file, tokens, calls, htmlContent, response>>

\* marked.parse begins: the engine breaks the text into blocks.
MarkedParse(r) ==
  /\ pc[r] = "parse"
  /\ tokens' = [tokens EXCEPT ![r] = EngineTokens(markdownData[r])]
  /\ pc' = [pc EXCEPT ![r] = "render"]
  /\ UNCHANGED <<file, markdownData, tocItems, tocHtml, calls, htmlContent,
                 response, console>>

RenderHeading_numbers_repeats(r) ==
  /\ pc[r] = "render"
  /\ tokens[r] # <<>>
  /\ Head(tokens[r]).type = "heading"
  /\ \E text \in EngineTexts(Head(tokens[r]).text) :
       LET token == [depth |-> Head(tokens[r]).depth, text |-> text]
           seen  == \E q \in Requests : \E j \in DOMAIN calls[q] :
                      calls[q][j].text = text
           slug  == IF seen THEN rendererSlug(text) \o <<"-", "1">>
                    ELSE rendererSlug(text)
       IN  /\ console' = Append(console,
                           [stream |-> "log",
                            line   |-> headingLog(text, token.depth, slug),
                            items  |-> <<>>])
           /\ calls' = [calls EXCEPT
                          ![r] = Append(@, [depth |-> token.depth,
                                            text  |-> token.text,
                                            html  |-> headingMarkup(
                                                        token.depth, text,
                                                        slug)])]
           /\ htmlContent' = [htmlContent EXCEPT
                                ![r] = @ \o headingMarkup(token.depth, text,
                                                          slug)]
  /\ tokens' = [tokens EXCEPT ![r] = Tail(@)]
  /\ UNCHANGED <<file, pc, markdownData, tocItems, tocHtml, response>>

\* The engine renders a heading: it calls renderer.heading.
RenderHeading(r) ==
  /\ pc[r] = "render"
  /\ tokens[r] # <<>>
  /\ Head(tokens[r]).type = "heading"
  /\ \E text \in EngineTexts(Head(tokens[r]).text) :
       LET token == [depth |-> Head(tokens[r]).depth, text |-> text]
           out   == heading(token)
       IN  /\ console' = Append(console, [stream |-> "log",
                                          line   |-> out.log,
                                          items  |-> <<>>])
           /\ calls' = [calls EXCEPT
                          ![r] = Append(@, [depth |-> token.depth,
                                            text  |-> token.text,
                                            html  |-> out.html])]
           /\ htmlContent' = [htmlContent EXCEPT ![r] = @ \o out.html]
  /\ tokens' = [tokens EXCEPT ![r] = Tail(@)]
  /\ UNCHANGED <<file, pc, markdownData, tocItems, tocHtml, response>>

\* The engine renders a block that is not a heading.
RenderBlock(r) ==
  /\ pc[r] = "render"
  /\ tokens[r] # <<>>
  /\ Head(tokens[r]).type # "heading"
  /\ htmlContent' = [htmlContent EXCEPT ![r] = @ \o EngineBlock(Head(tokens[r]))]
  /\ tokens' = [tokens EXCEPT ![r] = Tail(@)]
  /\ UNCHANGED <<file, pc, markdownData, tocItems, tocHtml, calls, response,
                 console>>

EngineThrows_caught(r) ==
  /\ pc[r] \in {"parse", "render"}
  /\ tokens' = [tokens EXCEPT ![r] = <<EngineError>>]
  /\ response' = [response EXCEPT
                    ![r] = Append(@, [status |-> 500,
                                      body   |-> <<ReadFailure>>])]
  /\ pc' = [pc EXCEPT ![r] = "done"]
  /\ UNCHANGED <<file, markdownData, tocItems, tocHtml, calls, htmlContent,
                 console>>

\* marked.parse throws.  The callback has no try/catch around it and nothing
\* handles uncaught exceptions, so the exception leaves the callback: this
\* request is never answered, and the process ends with every request that
\* is not finished.
EngineThrows(r) ==
  /\ pc[r] \in {"parse", "render"}
  /\ tokens' = [tokens EXCEPT ![r] = <<EngineError>>]
  /\ pc' = [q \in Requests |->
              IF q = r THEN "threw"
              ELSE IF pc[q] \in {"done", "closed"} THEN pc[q]
              ELSE "killed"]
  /\ UNCHANGED <<file, markdownData, tocItems, tocHtml, calls, htmlContent,
                 response, console>>

\* marked.parse has returned: strip "[object Object]".
StripObjects(r) ==
  /\ pc[r] = "render"
  /\ tokens[r] = <<>>
  /\ htmlContent' = [htmlContent EXCEPT ![r] = removeObjectObject(@)]
  /\ pc' = [pc EXCEPT ![r] = "compose"]
  /\ UNCHANGED <<file, markdownData, tocItems, tocHtml, tokens, calls,
                 response, console>>

\* Prepend the table of contents, or the note when there is none.
Compose(r) ==
  /\ pc[r] = "compose"
  /\ htmlContent' = [htmlContent EXCEPT ![r] = compose(tocHtml[r], @)]
  /\ pc' = [pc EXCEPT ![r] = "send"]
  /\ UNCHANGED <<file, markdownData, tocItems, tocHtml, tokens, calls,
                 response, console>>

\* The page sent twice.
Send_twice(r) ==
  /\ pc[r] = "send"
  /\ response' = [response EXCEPT
                    ![r] = @ \o <<[status |-> 200,
                                   body   |-> fullHtml(htmlContent[r])],
                                  [status |-> 200,
                                   body   |-> fullHtml(htmlContent[r])]>>]
  /\ pc' = [pc EXCEPT ![r] = "done"]
  /\ UNCHANGED <<file, markdownData, tocItems, tocHtml, tokens, calls,
                 htmlContent, console>>

\* res.send(fullHtml)
Send(r) ==
  /\ pc[r] = "send"
  /\ response' = [response EXCEPT
                    ![r] = Append(@, [status |-> 200,
                                      body   |-> fullHtml(htmlContent[r])])]
  /\ pc' = [pc EXCEPT ![r] = "done"]
  /\ UNCHANGED <<file, markdownData, tocItems, tocHtml, tokens, calls,
                 htmlContent, console>>

Next ==
  \E r \in Requests :
    \/ Get(r)
    \/ ReadError(r)
    \/ GenerateTOC(r)
    \/ MarkedParse(r)
    \/ RenderHeading(r)
    \/ RenderBlock(r)
    \/ EngineThrows(r)
    \/ StripObjects(r)
    \/ Compose(r)
    \/ Send(r)

Spec == Init /\ [][Next]_vars

(***************************************************************************)
(* Two requests in flight at once.  Every request calls fs.readFile for    *)
(* itself, so README.md may be rewritten on disk between two reads and the *)
(* two requests may hold different texts.                                  *)
(***************************************************************************)
ConcDocs ==
  {<<"#", " ", "a", "*", "b", "*">>,
   <<"#", "#", " ", "B", " ", "a", "\n", "a">>,
   <<"a">>}

\* README.md is rewritten on disk while the server runs.
Edit ==
  /\ \E r \in Requests : pc[r] \notin {"done", "closed", "threw", "killed"}
  /\ file' \in ConcDocs \ {file}
  /\ UNCHANGED <<pc, markdownData, tocItems, tocHtml, tokens, calls,
                 htmlContent, response, console>>

InitConc == InitWith(ConcDocs, Requests)

NextConc == Next \/ Edit

SpecConc == InitConc /\ [][NextConc]_vars

\* What Node runs for request r once fs.readFile has been started: the
\* readFile callback, from its first statement to its return or throw.
Handler(r) ==
  \/ ReadError(r)
  \/ EngineThrows(r)
  \/ Send(r)
  \/ Compose(r)
  \/ StripObjects(r)
  \/ RenderBlock(r)
  \/ RenderHeading(r)
  \/ MarkedParse(r)
  \/ GenerateTOC(r)

\* fs.readFile always calls back, and the callback, once called, runs to
\* its end: the event loop leaves no started handler waiting for ever.
SpecFair == SpecConc /\ \A r \in Requests : WF_vars(Handler(r))

(***************************************************************************)
(* What the documentation says, stated apart from the code above, and      *)
(* readers of the markup the code writes.                                  *)
(***************************************************************************)
\* [a-z0-9_]
SlugClass == LowerChars \cup DigitChars \cup {"_"}

\* SlugGenerator as documented: lowercase; every maximal run of characters
\* outside [a-z0-9_] becomes one hyphen; a hyphen at the start and a hyphen
\* at the end are dropped.
SlugGenerator(title) ==
  LET low == [i \in 1..Len(title) |-> LowerOf(title[i])]
      runs[i \in 0..Len(low)] ==
        IF i = 0 THEN <<>>
        ELSE IF low[i] \in SlugClass THEN Append(runs[i - 1], low[i])
        ELSE IF i = 1 \/ low[i - 1] \in SlugClass THEN Append(runs[i - 1], "-")
        ELSE runs[i - 1]
      hyph == runs[Len(low)]
      from == IF Len(hyph) > 0 /\ hyph[1] = "-" THEN 2 ELSE 1
      to   == IF Len(hyph) >= from /\ hyph[Len(hyph)] = "-"
              THEN Len(hyph) - 1 ELSE Len(hyph)
  IN  SubSeq(hyph, from, to)

\* The number of '#' the line starts with.
LeadingHashes(line) ==
  Cardinality({k \in 1..Len(line) : \A i \in 1..k : line[i] = "#"})

\* The heading rule as documented: 1 to 6 '#', then white space.
IsHeadingLine(line) ==
  LET n == LeadingHashes(line)
  IN  n >= 1 /\ n <= 6 /\ Len(line) > n /\ line[n + 1] \in WhiteSpace

\* s without the white space around it.
Trimmed(s) ==
  LET inked == {i \in 1..Len(s) : s[i] \notin WhiteSpace}
  IN  IF inked = {} THEN <<>>
      ELSE SubSeq(s, CHOOSE i \in inked : \A j \in inked : i <= j,
                     CHOOSE i \in inked : \A j \in inked : j <= i)

\* The rest of a heading line after its '#', trimmed.
RestOfLine(line) ==
  Trimmed(SubSeq(line, LeadingHashes(line) + 1, Len(line)))

\* The rest of a heading line after its '#' and the white space that follows
\* them, up to the first line terminator in it, trimmed.
RestToTerminator(line) ==
  LET n     == LeadingHashes(line)
      inked == {i \in (n + 1)..Len(line) : line[i] \notin WhiteSpace}
      start == IF inked = {} THEN Len(line) + 1
               ELSE CHOOSE i \in inked : \A j \in inked : i <= j
      ends  == {i \in start..Len(line) : line[i] \in LineTerminators}
      stop  == IF ends = {} THEN Len(line) + 1
               ELSE CHOOSE i \in ends : \A j \in ends : i <= j
  IN  Trimmed(SubSeq(line, start, stop - 1))

\* The lines of a text: the pieces between its newlines.
LinesOf(text) ==
  LET cuts == {i \in 1..Len(text) : text[i] = "\n"} \cup {0, Len(text) + 1}
      nth(k) == CHOOSE c \in cuts : Cardinality({d \in cuts : d < c}) = k
  IN  [k \in 1..(Cardinality(cuts) - 1) |->
         SubSeq(text, nth(k - 1) + 1, nth(k) - 1)]

\* The first place at or after from where s holds x; 0 when there is none.
IndexFrom(s, x, from) ==
  LET at == {i \in from..Len(s) : s[i] = x}
  IN  IF at = {} THEN 0 ELSE CHOOSE i \in at : \A j \in at : i <= j

CountOf(x, s) == Cardinality({i \in 1..Len(s) : s[i] = x})

\* The number a decimal numeral stands for; -1 when it is none in 0..most.
NumberOf(numeral, most) ==
  IF \E n \in 0..most : ToString(n) = numeral
  THEN CHOOSE n \in 0..most : ToString(n) = numeral
  ELSE -1

\* A heading element read back: <hL id="ID">CONTENT</hL'>.
ReadHeading(html) ==
  LET n == Len(html)
      q == IndexFrom(html, "\">", 4)
  IN  IF /\ n >= 7
         /\ html[1] = "<h" /\ html[3] = " id=\"" /\ q > 0 /\ q <= n - 3
         /\ html[n - 2] = "</h" /\ html[n] = ">"
      THEN [ok |-> TRUE,
            open    |-> NumberOf(html[2], 9),
            close   |-> NumberOf(html[n - 1], 9),
            id      |-> SubSeq(html, 4, q - 1),
            content |-> SubSeq(html, q + 1, n - 3)]
      ELSE [ok |-> FALSE, open |-> -1, close |-> -1, id |-> <<>>,
            content |-> <<>>]

BadEntry == [ok |-> FALSE, indent |-> -1, href |-> <<>>, text |-> <<>>]

RECURSIVE ReadEntries(_)
\* The entries of a navigation block read back, one after the other:
\* <div style="margin-left: Npx;"><a href="#HREF">TEXT</a></div>
ReadEntries(s) ==
  IF s = <<>> THEN <<>>
  ELSE LET q == IndexFrom(s, "\">", 4)
           e == IndexFrom(s, "</a></div>", q + 1)
       IN  IF /\ Len(s) >= 5
              /\ s[1] = "<div style=\"margin-left: "
              /\ s[3] = "px;\"><a href=\"#"
              /\ q > 0 /\ e > 0
           THEN <<[ok |-> TRUE,
                   indent |-> NumberOf(s[2], 200),
                   href   |-> SubSeq(s, 4, q - 1),
                   text   |-> SubSeq(s, q + 1, e - 1)]>>
                  \o ReadEntries(SubSeq(s, e + 1, Len(s)))
           ELSE <<BadEntry>>

\* The entries of the string generateTOC returned.
ReadToc(toc) ==
  IF Len(toc) >= 2 /\ toc[1] = NavOpen /\ toc[Len(toc)] = NavClose
  THEN ReadEntries(SubSeq(toc, 2, Len(toc) - 1))
  ELSE <<BadEntry>>

\* The request has run generateTOC.
Extracted(r) == pc[r] \in {"parse", "render", "compose", "send"}
                  \/ (pc[r] = "done" /\ response[r][1].status = 200)

(***************************************************************************)
(* The GET / handler of src/unnamed/part_001.  It has no generateTOC and   *)
(* no prepending: read, convert, remove "[object Object]", send.           *)
(***************************************************************************)
\* The most lines of a document given to this server.
MaxLines_001 == 2

DocLines_001 ==
  { <<"#", " ", "a">>,
    <<"#", "#", " ", "B", " ", "a", "!">>,
    <<"#", "#", "#", " ", "a", "*", "b", "*">>,
    <<"a">> }

Docs_001 ==
  {Join(ls) : ls \in UNION {[1..k -> DocLines_001] : k \in 1..MaxLines_001}}

Init_001 == InitWith(Docs_001, {1})

\* A GET / arrives and fs.readFile is started.
Get_001(r) ==
  /\ pc[r] = "waiting"
  /\ pc' = [pc EXCEPT ![r] = "reading"]
  /\ UNCHANGED <<file, markdownData, tocItems, tocHtml, tokens, calls,
                 htmlContent, response, console>>

\* The readFile callback with err set: log it and answer 500.
ReadError_001(r) ==
  /\ pc[r] = "reading"
  /\ console' = Append(console, [stream |-> "error",
                                 line   |-> <<"Error reading Markdown file:">>,
                                 items  |-> <<>>])
  /\ response' = [response EXCEPT
                    ![r] = Append(@, [status |-> 500,
                                      body   |-> <<ReadFailure>>])]
  /\ pc' = [pc EXCEPT ![r] = "done"]
  /\ UNCHANGED <<file, markdownData, tocItems, tocHtml, tokens, calls,
                 htmlContent>>

\* The readFile callback with the text: marked.parse begins.
MarkedParse_001(r) ==
  /\ pc[r] = "reading"
  /\ markdownData' = [markdownData EXCEPT ![r] = file]
  /\ tokens' = [tokens EXCEPT ![r] = EngineTokens(file)]
  /\ pc' = [pc EXCEPT ![r] = "render"]
  /\ UNCHANGED <<file, tocItems, tocHtml, calls, htmlContent, response,
                 console>>

\* The arguments the engine may call renderer.heading with for a heading
\* block: the older engines pass (text, level, raw, slugger) or, later,
\* (text, level, raw); the newer ones pass the token object alone.
EngineArguments(block) ==
  {[text |-> Str(t), level |-> Num(block.depth), raw |-> raw,
    slugger |-> slugger] :
     t \in EngineTexts(block.text),
     raw \in {Str(block.text), Undefined},
     slugger \in {Object, Undefined}}
  \cup {[text |-> Object, level |-> Undefined, raw |-> Undefined,
         slugger |-> Undefined]}

\* The engine renders a heading: it calls renderer.heading.
RenderHeading_001(r) ==
  /\ pc[r] = "render"
  /\ tokens[r] # <<>>
  /\ Head(tokens[r]).type = "heading"
  /\ \E a \in EngineArguments(Head(tokens[r])) :
       LET out == heading_001(a.text, a.level, a.raw, a.slugger)
       IN  /\ calls' = [calls EXCEPT
                          ![r] = Append(@, [text    |-> a.text,
                                            level   |-> a.level,
                                            raw     |-> a.raw,
                                            slugger |-> a.slugger,
                                            asked   |-> out.asked,
                                            html    |-> out.html])]
           /\ htmlContent' = [htmlContent EXCEPT ![r] = @ \o out.html]
  /\ tokens' = [tokens EXCEPT ![r] = Tail(@)]
  /\ UNCHANGED <<file, pc, markdownData, tocItems, tocHtml, response,
                 console>>

\* marked.parse throws: nothing in the callback catches it.
EngineThrows_001(r) == EngineThrows(r)

\* marked.parse has returned: strip "[object Object]".
StripObjects_001(r) ==
  /\ pc[r] = "render"
  /\ tokens[r] = <<>>
  /\ htmlContent' = [htmlContent EXCEPT ![r] = removeObjectObject(@)]
  /\ pc' = [pc EXCEPT ![r] = "send"]
  /\ UNCHANGED <<file, markdownData, tocItems, tocHtml, tokens, calls,
                 response, console>>

\* res.send(fullHtml)
Send_001(r) ==
  /\ pc[r] = "send"
  /\ response' = [response EXCEPT
                    ![r] = Append(@, [status |-> 200,
                                      body   |-> fullHtml_001(htmlContent[r])])]
  /\ pc' = [pc EXCEPT ![r] = "done"]
  /\ UNCHANGED <<file, markdownData, tocItems, tocHtml, tokens, calls,
                 htmlContent, console>>

Next_001 ==
  \E r \in Requests :
    \/ Get_001(r)
    \/ ReadError_001(r)
    \/ MarkedParse_001(r)
    \/ RenderHeading_001(r)
    \/ RenderBlock(r)
    \/ EngineThrows_001(r)
    \/ StripObjects_001(r)
    \/ Send_001(r)

Spec_001 == Init_001 /\ [][Next_001]_vars

(***************************************************************************)
(* Documents that hold the text "[object Object]".                         *)
(***************************************************************************)
\* The most lines of such a document.
MaxObjectLines == 2

ObjectLines ==
  { <<"#", " ", "a">>,
    <<"#", " ">> \o ObjectObject,
    <<"#", "#", " ", "a">> \o ObjectObject \o <<"b">>,
    ObjectObject,
    <<"[", "o", "b", "j", "e", "c", "t">> \o ObjectObject
      \o <<" ", "O", "b", "j", "e", "c", "t", "]">>,
    <<"a">> }

ObjectDocs ==
  {Join(ls) : ls \in UNION {[1..k -> ObjectLines] : k \in 1..MaxObjectLines}}

InitObjects == InitWith(ObjectDocs, {1})

SpecObjects == InitObjects /\ [][Next]_vars

(***************************************************************************)
(* Documents with two headings whose titles have the same words.           *)
(***************************************************************************)
\* The words of a title: its maximal runs of characters of [a-z0-9_] once
\* lowercased, in order.
WordsOf(title) ==
  LET low    == [i \in 1..Len(title) |-> LowerOf(title[i])]
      starts == {i \in 1..Len(low) :
                   /\ low[i] \in SlugClass
                   /\ i = 1 \/ low[i - 1] \notin SlugClass}
      stop(i) == CHOOSE j \in i..Len(low) :
                   /\ \A k \in i..j : low[k] \in SlugClass
                   /\ j = Len(low) \/ low[j + 1] \notin SlugClass
      nth(k) == CHOOSE i \in starts : Cardinality({j \in starts : j < i}) = k - 1
  IN  [k \in 1..Cardinality(starts) |-> SubSeq(low, nth(k), stop(nth(k)))]

\* The longest title of a pair.
MaxPairLen == 3

PairChars == {"a", "A", " ", "!"}

\* "# T1", a line of text, "# T2", for every two titles with the same words.
PairDocs ==
  {<<"#", " ">> \o p[1] \o <<"\n", "a", "\n", "#", " ">> \o p[2] :
     p \in {q \in Strings(PairChars, MaxPairLen)
                    \X Strings(PairChars, MaxPairLen) :
              WordsOf(q[1]) = WordsOf(q[2])}}

InitPairs == InitWith(PairDocs, {1})

SpecPairs == InitPairs /\ [][Next]_vars

(***************************************************************************)
(* Documents with two headings of any two titles over a letter, a digit    *)
(* and a punctuation mark.                                                 *)
(***************************************************************************)
AnyPairChars == {"a", "1", "!"}

AnyPairDocs ==
  {<<"#", " ">> \o t1 \o <<"\n", "a", "\n", "#", " ">> \o t2 :
     t1 \in Strings(AnyPairChars, MaxPairLen),
     t2 \in Strings(AnyPairChars, MaxPairLen)}

InitAnyPairs == InitWith(AnyPairDocs, {1})

SpecAnyPairs == InitAnyPairs /\ [][Next]_vars

(***************************************************************************)
(* The claims.                                                             *)
(***************************************************************************)
\* C1: whenever the text handed to renderer.heading equals the title the
\* extractor took from a heading line of the same document, the slug stored
\* in the extractor's record equals the id of the heading element emitted.
C1_SameTextSameSlug ==
  \A r \in Requests :
    \A i \in DOMAIN tocItems[r] :
      \A j \in DOMAIN calls[r] :
        calls[r][j].text = tocItems[r][i].title
          => /\ ReadHeading(calls[r][j].html).ok
             /\ ReadHeading(calls[r][j].html).id = tocItems[r][i].slug

\* A heading with capitals and a space in its title has been extracted and
\* rendered from the same text.
C1_Witness ==
  \E r \in Requests :
    \E i \in DOMAIN tocItems[r] :
      \E j \in DOMAIN calls[r] :
        /\ tocItems[r][i].title = <<"B", " ", "a">>
        /\ calls[r][j].text = tocItems[r][i].title
        /\ tocItems[r][i].slug = <<"b", "-", "a">>

\* C2: in every page sent with status 200, every link target of the table
\* of contents is the id of a heading element in the body of that page.
C2_TocLinksResolve ==
  \A r \in Requests :
    \A k \in DOMAIN response[r] :
      response[r][k].status = 200
        => \A i \in DOMAIN tocItems[r] :
             \E j \in DOMAIN calls[r] :
               ReadHeading(calls[r][j].html).id = tocItems[r][i].slug

\* C3: the slug in every extracted record and the id in every rendered
\* heading are the documented function of the title or text: lowercase,
\* runs outside [a-z0-9_] to one hyphen, edge hyphens dropped.
C3_SlugIsDocumentedFunction ==
  \A r \in Requests :
    /\ \A i \in DOMAIN tocItems[r] :
         tocItems[r][i].slug = SlugGenerator(tocItems[r][i].title)
    /\ \A j \in DOMAIN calls[r] :
         ReadHeading(calls[r][j].html).id = SlugGenerator(calls[r][j].text)

\* A title with a capital, a run of two characters outside the class and an
\* underscore has been slugged by both pieces of code.
C3_Witness ==
  \E r \in Requests :
    /\ \E i \in DOMAIN tocItems[r] :
         /\ tocItems[r][i].title = <<"B", "!", " ", "_">>
         /\ tocItems[r][i].slug = <<"b", "-", "_">>
    /\ \E j \in DOMAIN calls[r] :
         /\ calls[r][j].text = <<"B", "!", " ", "_">>
         /\ ReadHeading(calls[r][j].html).id = <<"b", "-", "_">>

\* The level and title the documented rule gives each heading line of the
\* text, in the order of the lines; title(line) is the title of a line.
HeadsOf(text, title(_)) ==
  LET lines == LinesOf(text)
      heads[k \in 0..Len(lines)] ==
        IF k = 0 THEN <<>>
        ELSE IF IsHeadingLine(lines[k])
             THEN Append(heads[k - 1], [level |-> LeadingHashes(lines[k]),
                                        title |-> title(lines[k])])
             ELSE heads[k - 1]
  IN  heads[Len(lines)]

\* The level and title of every record.
LevelsAndTitles(items) ==
  [i \in 1..Len(items) |-> [level |-> items[i].level, title |-> items[i].title]]

Range(f) == {f[x] : x \in DOMAIN f}

\* C4 as claimed: a line gives a record if and only if it begins with 1 to 6
\* '#' followed by white space, and then level is the number of '#' and
\* title is the rest of the line, trimmed.
C4_TitleIsRestOfLine ==
  \A r \in Requests :
    Extracted(r)
      => Range(LevelsAndTitles(tocItems[r]))
           = Range(HeadsOf(markdownData[r], RestOfLine))

\* C4, amended: a line gives a record if and only if it begins with 1 to 6
\* '#' followed by white space, and then level is the number of '#' and
\* title is the part of the line after the '#' and the white space behind
\* them up to the first line terminator in it, trimmed.
C4_TitleIsRestToTerminator ==
  \A r \in Requests :
    Extracted(r)
      => Range(LevelsAndTitles(tocItems[r]))
           = Range(HeadsOf(markdownData[r], RestToTerminator))

\* A level-6 heading line with a carriage return inside what follows the
\* '#' has been extracted.
C4_Witness ==
  \E r \in Requests :
    /\ Extracted(r)
    /\ markdownData[r] = Hashes(6) \o <<" ", "a", "\r", "a">>
    /\ tocItems[r] = <<[level |-> 6, title |-> <<"a">>, slug |-> <<"a">>]>>

\* C5: the extracted sequence has exactly one record for each heading line
\* of the text, in the order of the lines.
C5_OneRecordPerLineInOrder ==
  \A r \in Requests :
    Extracted(r)
      => LET heads == HeadsOf(markdownData[r], RestToTerminator)
         IN  /\ Len(tocItems[r]) = Len(heads)
             /\ \A i \in DOMAIN tocItems[r] :
                  /\ tocItems[r][i].level = heads[i].level
                  /\ tocItems[r][i].title = heads[i].title

\* "## B a", a text line, "# a": the level-2 record, then the level-1 one.
C5_Witness ==
  \E r \in Requests :
    /\ markdownData[r] = <<"#", "#", " ", "B", " ", "a", "\n", "a", "\n",
                           "#", " ", "a">>
    /\ Len(tocItems[r]) = 2
    /\ tocItems[r][1].level = 2 /\ tocItems[r][1].title = <<"B", " ", "a">>
    /\ tocItems[r][2].level = 1 /\ tocItems[r][2].title = <<"a">>

\* C6: for a non-empty sequence the navigation block holds exactly one
\* entry per record, in order, one after the other with none inside
\* another; entry i links to '#' and record i's slug and shows record i's
\* title, character for character.
C6_OneEntryPerRecord ==
  \A r \in Requests :
    tocItems[r] # <<>>
      => LET entries == ReadToc(tocHtml[r])
         IN  /\ Len(entries) = Len(tocItems[r])
             /\ \A i \in DOMAIN entries :
                  /\ entries[i].ok
                  /\ entries[i].href = tocItems[r][i].slug
                  /\ entries[i].text = tocItems[r][i].title

\* A block of two entries, the first with a title that is not its own slug.
C6_Witness ==
  \E r \in Requests :
    /\ Len(tocItems[r]) = 2
    /\ tocItems[r][1].title # tocItems[r][1].slug
    /\ tocItems[r][1].slug # tocItems[r][2].slug
    /\ Len(ReadToc(tocHtml[r])) = 2

\* C7: the indentation of entry i is (level - 1) * 20 pixels: 0 at level 1,
\* and of two entries the one of greater level is indented strictly more.
C7_IndentByLevel ==
  \A r \in Requests :
    tocItems[r] # <<>>
      => LET entries == ReadToc(tocHtml[r])
         IN  /\ Len(entries) = Len(tocItems[r])
             /\ \A i \in DOMAIN entries :
                  /\ entries[i].indent = (tocItems[r][i].level - 1) * 20
                  /\ tocItems[r][i].level = 1 => entries[i].indent = 0
             /\ \A i, j \in DOMAIN entries :
                  tocItems[r][i].level < tocItems[r][j].level
                    => entries[i].indent < entries[j].indent

\* A block with a level-1 entry after a level-3 entry.
C7_Witness ==
  \E r \in Requests :
    /\ Len(tocItems[r]) >= 2
    /\ tocItems[r][1].level = 3
    /\ tocItems[r][2].level = 1
    /\ ReadToc(tocHtml[r])[1].indent = 40
    /\ ReadToc(tocHtml[r])[2].indent = 0

\* C8: generateTOC returns the empty string if and only if no line of the
\* text is a heading line, and then there is no navigation block at all;
\* otherwise it returns one navigation block.
C8_EmptyIffNoHeadingLine ==
  \A r \in Requests :
    Extracted(r)
      => LET lines == LinesOf(markdownData[r])
             none  == \A k \in DOMAIN lines : ~IsHeadingLine(lines[k])
         IN  /\ (tocHtml[r] = <<>>) <=> none
             /\ CountOf(NavOpen, tocHtml[r]) = IF none THEN 0 ELSE 1

\* generateTOC has returned the empty string for a line of seven '#', a
\* space and a letter.
C8_Witness ==
  \E r \in Requests :
    /\ Extracted(r)
    /\ markdownData[r] = Hashes(7) \o <<" ", "a">>
    /\ tocHtml[r] = <<>>

\* C9: the step that composes the fragment makes it a prefix followed by the
\* body, where the prefix is the fallback notice when tocHtml is empty and
\* tocHtml otherwise; the prefix holds the notice or a navigation block,
\* never both and never neither.
C9_ComposePrefixThenBody ==
  [][\A r \in Requests :
       (pc[r] = "compose" /\ pc'[r] = "send")
         => LET body   == htmlContent[r]
                whole  == htmlContent'[r]
                prefix == SubSeq(whole, 1, Len(whole) - Len(body))
            IN  /\ Len(whole) >= Len(body)
                /\ whole = prefix \o body
                /\ prefix = IF tocHtml[r] = <<>> THEN <<Notice>> ELSE tocHtml[r]
                /\ CountOf(Notice, prefix) + CountOf(NavOpen, prefix) = 1
                /\ CountOf(Notice, prefix) = 1 <=> tocHtml[r] = <<>>]_vars

\* A fragment has been composed of the notice and a body that is not empty.
C9_Witness ==
  \E r \in Requests :
    /\ pc[r] = "send"
    /\ tocHtml[r] = <<>>
    /\ Len(htmlContent[r]) > 1
    /\ htmlContent[r][1] = Notice

\* C10: every call of renderer.heading with (level, text) returns a heading
\* element of that level, opened and closed, whose id is SlugGenerator(text)
\* and whose content is text, unchanged.
C10_HeadingElement ==
  \A r \in Requests :
    \A j \in DOMAIN calls[r] :
      LET h == ReadHeading(calls[r][j].html)
      IN  /\ h.ok
          /\ h.open = calls[r][j].depth
          /\ h.close = calls[r][j].depth
          /\ h.id = SlugGenerator(calls[r][j].text)
          /\ h.content = calls[r][j].text

\* renderer.heading has been called with level 2 and the text "B a".
C10_Witness ==
  \E r \in Requests :
    \E j \in DOMAIN calls[r] :
      /\ calls[r][j].depth = 2
      /\ calls[r][j].text = <<"B", " ", "a">>
      /\ ReadHeading(calls[r][j].html).id = <<"b", "-", "a">>

\* C13: when the engine fails while a request is rendered, the handler
\* does not catch the failure: the request stops where it is, no status and
\* no body is sent for it, and it stays that way.
C13_EngineFailureNotCaught ==
  [][\A r \in Requests :
       /\ tokens'[r] = <<EngineError>>
            => /\ pc'[r] = "threw"
               /\ response'[r] = <<>>
       /\ pc[r] = "threw"
            => /\ pc'[r] = "threw"
               /\ response'[r] = response[r]
               /\ htmlContent'[r] = htmlContent[r]]_vars

\* The engine has failed after renderer.heading had been called once.
C13_Witness ==
  \E r \in Requests :
    /\ pc[r] = "threw"
    /\ Len(calls[r]) = 1
    /\ response[r] = <<>>

\* C12: when the source cannot be read, the request is answered with status
\* 500 and the fixed message and with nothing else: no table of contents is
\* generated, the engine is not invoked, no part of the page is sent, the
\* read is not tried again, and the only record logged is the error.
Failed(r) == response[r] # <<>> /\ response[r][1].status = 500

C12_ReadFailureOnly ==
  [][\A r \in Requests :
       /\ Failed(r)'
            => /\ response'[r] = <<[status |-> 500, body |-> <<ReadFailure>>]>>
               /\ pc'[r] = "done"
               /\ markdownData'[r] = <<>>
               /\ tocItems'[r] = <<>>
               /\ tocHtml'[r] = <<>>
               /\ tokens'[r] = <<>>
               /\ calls'[r] = <<>>
               /\ htmlContent'[r] = <<>>
       /\ (~Failed(r) /\ Failed(r)')
            => /\ pc[r] = "reading"
               /\ Len(console') = Len(console) + 1
               /\ SubSeq(console', 1, Len(console)) = console
               /\ console'[Len(console')].stream = "error"]_vars

\* The read of a document that has a heading line has failed.
C12_Witness ==
  \E r \in Requests :
    /\ Failed(r)
    /\ pc[r] = "done"
    /\ tocItemsOf(file) # <<>>

\* C11: a heading whose title holds inline markup can get two slugs.  When
\* the engine has handed renderer.heading no text whose slug is the slug of
\* the raw title of a heading line, the link of that line's TOC entry is
\* still the slug of the raw title, and it is the id of no heading element
\* of the page.  (That this happens is what the witness shows.)
Rendered(r) ==
  \/ pc[r] \in {"compose", "send"}
  \/ pc[r] = "done" /\ response[r][1].status = 200

C11_TwoSlugsBreakLink ==
  \A r \in Requests :
    Rendered(r)
      => \A i \in DOMAIN tocItems[r] :
           LET raw == SlugGenerator(tocItems[r][i].title)
           IN  (\A j \in DOMAIN calls[r] :
                  SlugGenerator(calls[r][j].text) # raw)
                 => /\ ReadToc(tocHtml[r])[i].href = raw
                    /\ \A j \in DOMAIN calls[r] :
                         ReadHeading(calls[r][j].html).id # raw

\* The page of "### a*b*" has been sent: the extractor slugged the raw title
\* to a-b and linked to it, the engine handed renderer.heading the resolved
\* text ab, and the only heading element of the page has the id ab.
C11_Witness ==
  \E r \in Requests :
    /\ pc[r] = "done" /\ response[r][1].status = 200
    /\ Len(tocItems[r]) = 1 /\ Len(calls[r]) = 1
    /\ tocItems[r][1].title = <<"a", "*", "b", "*">>
    /\ tocItems[r][1].slug = <<"a", "-", "b">>
    /\ ReadToc(tocHtml[r])[1].href = <<"a", "-", "b">>
    /\ calls[r][1].text = <<"a", "b">>
    /\ ReadHeading(calls[r][1].html).id = <<"a", "b">>

RECURSIVE BodiesOf(_)
\* The bodies the engine and renderer.heading can make of a list of blocks.
BodiesOf(blocks) ==
  IF blocks = <<>> THEN {<<>>}
  ELSE LET b == Head(blocks)
           first == IF b.type = "heading"
                    THEN {heading([depth |-> b.depth, text |-> t]).html :
                            t \in EngineTexts(b.text)}
                    ELSE {EngineBlock(b)}
       IN  {f \o rest : f \in first, rest \in BodiesOf(Tail(blocks))}

\* The pages a request gives for a text when it is the only request the
\* server ever gets.
PagesAlone(text) ==
  {fullHtml(compose(generateTOC(text), removeObjectObject(body))) :
     body \in BodiesOf(EngineTokens(text))}

\* What a request holds for itself.
Locals(r) ==
  <<markdownData[r], tocItems[r], tocHtml[r], tokens[r], calls[r],
    htmlContent[r], response[r]>>

\* C14: no state is shared between requests.  For any interleaving of two
\* requests and any earlier request, no step changes what more than one
\* request holds, and the page a request sends is a page the same request
\* gives for the text it read when it runs alone.
C14_RequestsIndependent ==
  [][/\ \E r \in Requests : \A q \in Requests \ {r} : Locals(q)' = Locals(q)
     /\ \A r \in Requests :
          \A k \in DOMAIN response'[r] :
            response'[r][k].status = 200
              => response'[r][k].body \in PagesAlone(markdownData'[r])]_vars

\* Two requests that read different texts ran interleaved (both had run
\* generateTOC before either heading was rendered) and both sent a page.
C14_Witness ==
  /\ \A r \in Requests : pc[r] = "done" /\ response[r][1].status = 200
  /\ markdownData[1] # markdownData[2]
  /\ Len(calls[1]) = 1 /\ Len(calls[2]) = 1
  /\ Len(console) = 4
  /\ console[1].items # <<>> /\ console[2].items # <<>>

\* A record logged by renderer.heading read back:
\* Generated header: "TEXT" (level L) with slug: "SLUG"
ReadHeadingLog(line) ==
  LET n == Len(line)
      a == IndexFrom(line, "\" (level ", 2)
  IN  IF /\ n >= 5
         /\ line[1] = "Generated header: \""
         /\ a > 0 /\ a + 2 < n
         /\ line[a + 2] = ") with slug: \""
         /\ line[n] = "\""
      THEN [ok |-> TRUE,
            text  |-> SubSeq(line, 2, a - 1),
            level |-> NumberOf(line[a + 1], 9),
            slug  |-> SubSeq(line, a + 3, n - 1)]
      ELSE [ok |-> FALSE, text |-> <<>>, level |-> -1, slug |-> <<>>]

\* C15: a call of renderer.heading has no effect but the markup it returns
\* and one record appended to the log, which carries the text, the level
\* and the slug.  It changes nothing else of any request, no step alters a
\* record logged earlier, and the markup returned for a (level, text) is
\* the same whatever calls came before, in this request or another.
C15_HeadingRendererFrame ==
  [][/\ Len(console') >= Len(console)
     /\ SubSeq(console', 1, Len(console)) = console
     /\ \A r \in Requests :
          calls'[r] # calls[r]
            => LET n    == Len(calls'[r])
                   call == calls'[r][n]
                   rec  == ReadHeadingLog(console'[Len(console')].line)
               IN  /\ n = Len(calls[r]) + 1
                   /\ SubSeq(calls'[r], 1, n - 1) = calls[r]
                   /\ htmlContent'[r] = htmlContent[r] \o call.html
                   /\ Len(console') = Len(console) + 1
                   /\ console'[Len(console')].stream = "log"
                   /\ rec.ok
                   /\ rec.text = call.text
                   /\ rec.level = call.depth
                   /\ rec.slug = ReadHeading(call.html).id
                   /\ UNCHANGED <<file, pc, markdownData, tocItems, tocHtml,
                                  response>>
                   /\ \A q \in Requests \ {r} : Locals(q)' = Locals(q)
     /\ \A r, q \in Requests :
          \A i \in DOMAIN calls'[r] :
            \A j \in DOMAIN calls'[q] :
              (/\ calls'[r][i].depth = calls'[q][j].depth
               /\ calls'[r][i].text = calls'[q][j].text)
                => calls'[r][i].html = calls'[q][j].html]_vars

\* renderer.heading has been called with the same level and text by two
\* requests, after other calls, and four records are in the log.
C15_Witness ==
  /\ calls[1] # <<>> /\ calls[2] # <<>>
  /\ calls[1][1].depth = calls[2][1].depth
  /\ calls[1][1].text = calls[2][1].text
  /\ Len(console) = 4
  /\ ReadHeadingLog(console[4].line).ok

\* C16: heading lines with the same title are all extracted and get the
\* same slug: the sequence holds as many records with a title as the text
\* has heading lines with it, and the TOC entries of two such records link
\* to the same target and show the same text (they are identical when the
\* levels are equal too).  No record is dropped and no slug is suffixed.
C16_DuplicatesKept ==
  \A r \in Requests :
    Extracted(r)
      => LET heads   == HeadsOf(markdownData[r], RestToTerminator)
             entries == ReadToc(tocHtml[r])
         IN  /\ \A h \in DOMAIN heads :
                  Cardinality({i \in DOMAIN tocItems[r] :
                                 tocItems[r][i].title = heads[h].title})
                    = Cardinality({k \in DOMAIN heads :
                                     heads[k].title = heads[h].title})
             /\ \A i, j \in DOMAIN tocItems[r] :
                  tocItems[r][i].title = tocItems[r][j].title
                    => /\ tocItems[r][i].slug = tocItems[r][j].slug
                       /\ entries[i].href = entries[j].href
                       /\ entries[i].text = entries[j].text
                       /\ tocItems[r][i].level = tocItems[r][j].level
                            => entries[i] = entries[j]

\* "# a", "# a": two records, two identical entries linking to #a.
C16_Witness ==
  \E r \in Requests :
    /\ markdownData[r] = <<"#", " ", "a", "\n", "#", " ", "a">>
    /\ Len(tocItems[r]) = 2
    /\ tocItems[r][1] = tocItems[r][2]
    /\ Len(ReadToc(tocHtml[r])) = 2
    /\ ReadToc(tocHtml[r])[1] = ReadToc(tocHtml[r])[2]
    /\ ReadToc(tocHtml[r])[1].href = <<"a">>

\* A line that opens or closes a fenced code block.
FenceLine(line) == Len(line) >= 3 /\ SubSeq(line, 1, 3) = <<"~", "~", "~">>

\* Line k lies inside a fenced code block: an odd number of fence lines
\* comes before it.
Fenced(lines, k) ==
  Cardinality({m \in 1..(k - 1) : FenceLine(lines[m])}) % 2 = 1

\* C17: a heading line inside a fenced code block is extracted like any
\* other: it has its record, at the place its line has among the heading
\* lines, and its entry in the table of contents.
C17_FencedLinesExtracted ==
  \A r \in Requests :
    Extracted(r)
      => LET lines   == LinesOf(markdownData[r])
             entries == ReadToc(tocHtml[r])
         IN  \A k \in DOMAIN lines :
               (IsHeadingLine(lines[k]) /\ Fenced(lines, k))
                 => LET i == Cardinality({m \in 1..k :
                                            IsHeadingLine(lines[m])})
                        t == RestToTerminator(lines[k])
                    IN  /\ i <= Len(tocItems[r])
                        /\ tocItems[r][i].level = LeadingHashes(lines[k])
                        /\ tocItems[r][i].title = t
                        /\ i <= Len(entries)
                        /\ entries[i].ok
                        /\ entries[i].href = SlugGenerator(t)
                        /\ entries[i].text = t

\* "# a", a fence, "## B a" inside it: the second record is the fenced one
\* and the engine rendered one heading only.
C17_Witness ==
  \E r \in Requests :
    /\ markdownData[r] = <<"#", " ", "a", "\n", "~", "~", "~", "\n",
                           "#", "#", " ", "B", " ", "a">>
    /\ pc[r] = "done" /\ response[r][1].status = 200
    /\ Len(tocItems[r]) = 2
    /\ tocItems[r][2].title = <<"B", " ", "a">>
    /\ ReadToc(tocHtml[r])[2].href = <<"b", "-", "a">>
    /\ Len(calls[r]) = 1

\* The shape of a slug: characters of [a-z0-9_] and hyphens only, no hyphen
\* at either end, no two hyphens side by side.
SlugShape(slug) ==
  /\ \A i \in DOMAIN slug : slug[i] \in SlugClass \cup {"-"}
  /\ slug # <<>> => slug[1] # "-" /\ slug[Len(slug)] # "-"
  /\ \A i \in 1..(Len(slug) - 1) : ~(slug[i] = "-" /\ slug[i + 1] = "-")

\* C18: every slug, in an extracted record and in a rendered heading's id,
\* is made of characters of [a-z0-9_] and hyphens, neither begins nor ends
\* with a hyphen, and never has two hyphens side by side.
C18_SlugShape ==
  \A r \in Requests :
    /\ \A i \in DOMAIN tocItems[r] : SlugShape(tocItems[r][i].slug)
    /\ \A j \in DOMAIN calls[r] :
         SlugShape(ReadHeading(calls[r][j].html).id)

\* The title "!B !": a capital, and characters outside the class on both
\* sides, two of them at the end; its slug is "b".
C18_Witness ==
  \E r \in Requests :
    /\ tocItems[r] # <<>>
    /\ tocItems[r][1].title = <<"!", "B", " ", "!">>
    /\ tocItems[r][1].slug = <<"b">>
    /\ calls[r] # <<>>
    /\ ReadHeading(calls[r][1].html).id = <<"b">>

\* C20: every extracted record has a level in 1..6, a title with no white
\* space at either end and the slug SlugGenerator gives its title; once
\* made, the records of a request never change, and the log and the table
\* of contents were made from them as they are.
C20_RecordInvariant ==
  [][\A r \in Requests :
       /\ \A i \in DOMAIN tocItems'[r] :
            LET item == tocItems'[r][i]
            IN  /\ item.level \in 1..6
                /\ item.title = Trimmed(item.title)
                /\ item.slug = SlugGenerator(item.title)
       /\ tocItems[r] # <<>> => tocItems'[r] = tocItems[r]
       /\ (tocItems[r] = <<>> /\ tocItems'[r] # <<>>)
            => /\ console'[Len(console')].items = tocItems'[r]
               /\ LET entries == ReadToc(tocHtml'[r])
                  IN  /\ Len(entries) = Len(tocItems'[r])
                      /\ \A i \in DOMAIN entries :
                           /\ entries[i].href = tocItems'[r][i].slug
                           /\ entries[i].text = tocItems'[r][i].title
                           /\ entries[i].indent
                                = (tocItems'[r][i].level - 1) * 20]_vars

\* Six '#', two spaces, "a", a space: the record has level 6 and the title
\* "a", and the page made with it has been sent.
C20_Witness ==
  \E r \in Requests :
    /\ markdownData[r] = Hashes(6) \o <<" ", " ", "a", " ">>
    /\ pc[r] = "done" /\ response[r][1].status = 200
    /\ tocItems[r] = <<[level |-> 6, title |-> <<"a">>, slug |-> <<"a">>]>>

\* C19: two titles that differ only in the case of their letters, or only
\* in the characters outside [a-z0-9_] that separate or surround their
\* words, have the same words and get the same slug, from the extractor
\* and from the renderer alike.
C19_SameWordsSameSlug ==
  \A r \in Requests :
    /\ \A i, j \in DOMAIN tocItems[r] :
         WordsOf(tocItems[r][i].title) = WordsOf(tocItems[r][j].title)
           => tocItems[r][i].slug = tocItems[r][j].slug
    /\ \A i, j \in DOMAIN calls[r] :
         WordsOf(calls[r][i].text) = WordsOf(calls[r][j].text)
           => ReadHeading(calls[r][i].html).id
                = ReadHeading(calls[r][j].html).id

\* "!!A" and "a !": the same word in another case, with other characters
\* around it; both records and both heading elements have the slug "a".
C19_Witness ==
  \E r \in Requests :
    /\ Len(tocItems[r]) = 2 /\ Len(calls[r]) = 2
    /\ tocItems[r][1].title = <<"!", "!", "A">>
    /\ tocItems[r][2].title = <<"a", " ", "!">>
    /\ tocItems[r][1].slug = <<"a">>
    /\ tocItems[r][2].slug = <<"a">>
    /\ ReadHeading(calls[r][1].html).id = ReadHeading(calls[r][2].html).id

\* C21: the slug of the empty title is empty, and so is the slug of every
\* title that has no character of [a-z0-9_] once lowercased; the same holds
\* of the id renderer.heading gives such a text.
NoSlugChar(title) ==
  \A k \in DOMAIN title : LowerOf(title[k]) \notin SlugClass

C21_EmptySlug ==
  \A r \in Requests :
    /\ \A i \in DOMAIN tocItems[r] :
         NoSlugChar(tocItems[r][i].title) => tocItems[r][i].slug = <<>>
    /\ \A j \in DOMAIN calls[r] :
         NoSlugChar(calls[r][j].text)
           => ReadHeading(calls[r][j].html).id = <<>>

\* The title "! *!", punctuation and a space only, has been slugged by the
\* extractor and by the renderer: both slugs are empty.
C21_Witness ==
  \E r \in Requests :
    /\ tocItems[r] # <<>> /\ calls[r] # <<>>
    /\ tocItems[r][1].title = <<"!", " ", "*", "!">>
    /\ tocItems[r][1].slug = <<>>
    /\ calls[r][1].text = <<"!", " ", "*", "!">>
    /\ ReadHeading(calls[r][1].html).id = <<>>

\* The empty title: the line "# ".
C21_WitnessEmpty ==
  \E r \in Requests :
    /\ markdownData[r] = <<"#", " ">>
    /\ tocItems[r] = <<[level |-> 1, title |-> <<>>, slug |-> <<>>]>>

\* C22: lines are processed independently.  Wherever a text is cut at one
\* of its newlines into a and b, the sequence extracted from the text is
\* the sequence extracted from a followed by the one extracted from b.
C22_LinesIndependent ==
  \A r \in Requests :
    Extracted(r)
      => \A k \in DOMAIN markdownData[r] :
           markdownData[r][k] = "\n"
             => tocItems[r]
                  = tocItemsOf(SubSeq(markdownData[r], 1, k - 1))
                      \o tocItemsOf(SubSeq(markdownData[r], k + 1,
                                           Len(markdownData[r])))

\* "# a" and "# a" joined by a newline: one record from each part.
C22_Witness ==
  \E r \in Requests :
    /\ Extracted(r)
    /\ markdownData[r] = <<"#", " ", "a", "\n", "#", " ", "a">>
    /\ Len(tocItems[r]) = 2
    /\ tocItemsOf(<<"#", " ", "a">>) = <<tocItems[r][1]>>

\* C24: the slug code is idempotent: applied to a slug it has made, it
\* gives that slug again, in the extractor and in the renderer.
C24_SlugIdempotent ==
  \A r \in Requests :
    /\ \A i \in DOMAIN tocItems[r] :
         tocSlug(tocItems[r][i].slug) = tocItems[r][i].slug
    /\ \A j \in DOMAIN calls[r] :
         rendererSlug(ReadHeading(calls[r][j].html).id)
           = ReadHeading(calls[r][j].html).id

\* The title "!B a" has the slug "b-a", and the slug of "b-a" is "b-a".
C24_Witness ==
  \E r \in Requests :
    /\ tocItems[r] # <<>>
    /\ tocItems[r][1].title = <<"!", "B", " ", "a">>
    /\ tocItems[r][1].slug = <<"b", "-", "a">>
    /\ tocSlug(<<"b", "-", "a">>) = <<"b", "-", "a">>

\* A line of 1 to 6 '#' with white space, and nothing else, after them.
HashesAndSpace(line) ==
  LET n == LeadingHashes(line)
  IN  /\ n \in 1..6
      /\ Len(line) > n
      /\ \A k \in (n + 1)..Len(line) : line[k] \in WhiteSpace

\* C27: a line of 1 to 6 '#' followed by white space only is extracted as
\* a record with its level, the empty title and the empty slug; its entry
\* in the table of contents links to '#' alone and shows no text, and the
\* table of contents is not empty.
C27_EmptyTitleExtracted ==
  \A r \in Requests :
    Extracted(r)
      => LET lines   == LinesOf(markdownData[r])
             entries == ReadToc(tocHtml[r])
         IN  \A k \in DOMAIN lines :
               HashesAndSpace(lines[k])
                 => LET i == Cardinality({m \in 1..k :
                                            IsHeadingLine(lines[m])})
                    IN  /\ tocHtml[r] # <<>>
                        /\ i \in DOMAIN tocItems[r]
                        /\ tocItems[r][i]
                             = [level |-> LeadingHashes(lines[k]),
                                title |-> <<>>, slug |-> <<>>]
                        /\ i \in DOMAIN entries
                        /\ entries[i].ok
                        /\ entries[i].href = <<>>
                        /\ entries[i].text = <<>>

\* The line "##" and two spaces, on its own: one record of level 2 with no
\* title, and a navigation block with its entry.
C27_Witness ==
  \E r \in Requests :
    /\ Extracted(r)
    /\ markdownData[r] = <<"#", "#", " ", " ">>
    /\ tocItems[r] = <<[level |-> 2, title |-> <<>>, slug |-> <<>>]>>
    /\ tocHtml[r]
         = <<NavOpen, "<div style=\"margin-left: ", "20",
             "px;\"><a href=\"#", "\">", "</a></div>", NavClose>>

\* s without the occurrences of "[object Object]" in it (no two of them
\* overlap: the text has its '[' at the start only).
WithoutLiteral(s) ==
  LET n      == Len(ObjectObject)
      starts == {i \in 1..(Len(s) - n + 1) : SubSeq(s, i, i + n - 1) = ObjectObject}
      kept   == {k \in 1..Len(s) : \A i \in starts : k < i \/ k >= i + n}
      nth(m) == CHOOSE k \in kept : Cardinality({j \in kept : j < k}) = m - 1
  IN  [m \in 1..Cardinality(kept) |-> s[nth(m)]]

\* The number of occurrences of "[object Object]" in s.
Literals(s) ==
  Cardinality({i \in 1..Len(s) :
     /\ i + Len(ObjectObject) - 1 <= Len(s)
     /\ SubSeq(s, i, i + Len(ObjectObject) - 1) = ObjectObject})

\* C26: "[object Object]" is removed from the converted body only, and
\* before anything is prepended.  The step after the conversion removes
\* the occurrences from the body and leaves the table of contents alone;
\* the next step puts the table of contents, or the notice, in front of the
\* body exactly as generated; the page sent holds that fragment unchanged,
\* so a TOC entry shows a title with the text in it in full.
C26_RemovalOnBodyOnly ==
  [][\A r \in Requests :
       /\ (pc[r] = "render" /\ pc'[r] = "compose")
            => /\ htmlContent'[r] = WithoutLiteral(htmlContent[r])
               /\ tocHtml'[r] = tocHtml[r]
       /\ (pc[r] = "compose" /\ pc'[r] = "send")
            => /\ htmlContent'[r]
                    = (IF tocHtml[r] = <<>> THEN <<Notice>> ELSE tocHtml[r])
                        \o htmlContent[r]
               /\ tocHtml'[r] = tocHtml[r]
       /\ (pc[r] = "send" /\ pc'[r] = "done")
            => LET page    == response'[r][1].body
                   entries == ReadToc(SubSeq(page, 2, Len(tocHtml[r]) + 1))
               IN  /\ page = <<PageHead>> \o htmlContent[r] \o <<PageTail>>
                   /\ \A i \in DOMAIN tocItems[r] :
                        /\ entries[i].text = tocItems[r][i].title
                        /\ Literals(entries[i].text)
                             = Literals(tocItems[r][i].title)]_vars

\* The page of "# [object Object]" has been sent: the TOC entry shows the
\* title in full, the heading element came back from the renderer with it
\* and stands in the page without it.
C26_Witness ==
  \E r \in Requests :
    /\ pc[r] = "done" /\ response[r][1].status = 200
    /\ markdownData[r] = <<"#", " ">> \o ObjectObject
    /\ tocItems[r][1].title = ObjectObject
    /\ tocItems[r][1].slug
         = <<"o", "b", "j", "e", "c", "t", "-", "o", "b", "j", "e", "c", "t">>
    /\ ReadHeading(calls[r][1].html).content = ObjectObject
    /\ response[r][1].body
         = <<PageHead, NavOpen, "<div style=\"margin-left: ", "0",
             "px;\"><a href=\"#">> \o tocItems[r][1].slug \o <<"\">">>
             \o ObjectObject
             \o <<"</a></div>", NavClose, "<h", "1", " id=\"">>
             \o tocItems[r][1].slug \o <<"\">", "</h", "1", ">", PageTail>>

\* C25: slugs collide only between titles with the same words.  Two
\* records with the same slug have titles with the same words, and two
\* rendered headings with the same id have texts with the same words.
C25_SameSlugSameWords ==
  \A r \in Requests :
    /\ \A i, j \in DOMAIN tocItems[r] :
         tocItems[r][i].slug = tocItems[r][j].slug
           => WordsOf(tocItems[r][i].title) = WordsOf(tocItems[r][j].title)
    /\ \A i, j \in DOMAIN calls[r] :
         ReadHeading(calls[r][i].html).id = ReadHeading(calls[r][j].html).id
           => WordsOf(calls[r][i].text) = WordsOf(calls[r][j].text)

\* "!a1" and "a1!" collide on the slug "a1"; both have the one word "a1".
C25_Witness ==
  \E r \in Requests :
    /\ Len(tocItems[r]) = 2 /\ Len(calls[r]) = 2
    /\ tocItems[r][1].title = <<"!", "a", "1">>
    /\ tocItems[r][2].title = <<"a", "1", "!">>
    /\ tocItems[r][1].slug = <<"a", "1">>
    /\ tocItems[r][2].slug = <<"a", "1">>
    /\ WordsOf(tocItems[r][1].title) = <<<<"a", "1">>>>
    /\ ReadHeading(calls[r][1].html).id = ReadHeading(calls[r][2].html).id

\* Two headings whose titles have other words, "a!1" and "a1", and whose
\* slugs differ.
C25_WitnessApart ==
  \E r \in Requests :
    /\ Len(tocItems[r]) = 2
    /\ tocItems[r][1].title = <<"a", "!", "1">>
    /\ tocItems[r][2].title = <<"a", "1">>
    /\ tocItems[r][1].slug # tocItems[r][2].slug

\* C28: the two servers with a table of contents agree on the core.  What
\* src/server.js extracts, generates, renders and composes in a request is
\* what the code of src/unnamed/part_000 gives for the same text and the
\* same heading calls: the same records, the same TOC markup, the same
\* heading markup and log line, the same body after the removal and the
\* same composed fragment.
C28_VariantsAgree ==
  [][\A r \in Requests :
       /\ Extracted(r)'
            => /\ tocItems'[r] = tocItemsOf_000(markdownData'[r])
               /\ tocHtml'[r] = generateTOC_000(markdownData'[r])
       /\ \A j \in DOMAIN calls'[r] :
            calls'[r][j].html
              = heading_000([depth |-> calls'[r][j].depth,
                             text  |-> calls'[r][j].text]).html
       /\ calls'[r] # calls[r]
            => console'[Len(console')].line
                 = heading_000([depth |-> calls'[r][Len(calls'[r])].depth,
                                text  |-> calls'[r][Len(calls'[r])].text]).log
       /\ (pc[r] = "render" /\ pc'[r] = "compose")
            => htmlContent'[r] = removeObjectObject_000(htmlContent[r])
       /\ (pc[r] = "compose" /\ pc'[r] = "send")
            => htmlContent'[r]
                 = compose_000(generateTOC_000(markdownData[r]),
                               htmlContent[r])]_vars

\* The fragment of "## B a", "a", "# a" has been composed: two records, a
\* navigation block, two rendered headings.
C28_Witness ==
  \E r \in Requests :
    /\ pc[r] = "send"
    /\ markdownData[r] = <<"#", "#", " ", "B", " ", "a", "\n", "a", "\n",
                           "#", " ", "a">>
    /\ Len(tocItems[r]) = 2 /\ Len(calls[r]) = 2
    /\ htmlContent[r][1] = NavOpen_000
    /\ SubSeq(htmlContent[r], 1, Len(tocHtml[r]))
         = generateTOC_000(markdownData[r])

\* The string form of a JavaScript value, by its kind.
StringForm(value) ==
  IF value.type = "string" THEN value.chars
  ELSE IF value.type = "object"
       THEN <<"[", "o", "b", "j", "e", "c", "t", " ",
              "O", "b", "j", "e", "c", "t", "]">>
       ELSE IF value.type = "number" THEN <<ToString(value.n)>>
       ELSE <<"u", "n", "d", "e", "f", "i", "n", "e", "d">>

\* C29: in the server without a table of contents, renderer.heading takes
\* the id from raw when raw is a string and from the string form of text
\* otherwise; when a slugger is supplied it asks the slugger, once, for the
\* slug of that string and uses the answer, and only otherwise does it
\* apply the documented conversion itself; the content of the element is
\* always the string form of text.
C29_RendererOfVariant ==
  \A r \in Requests :
    \A j \in DOMAIN calls[r] :
      LET call == calls[r][j]
          h    == ReadHeading(call.html)
          base == IF call.raw.type = "string" THEN call.raw.chars
                  ELSE StringForm(call.text)
      IN  /\ h.ok
          /\ h.content = StringForm(call.text)
          /\ call.slugger.type = "object"
               => /\ call.asked = <<base>>
                  /\ h.id = SluggerSlug(base)
          /\ call.slugger.type # "object"
               => /\ call.asked = <<>>
                  /\ h.id = SlugGenerator(base)

\* Called for "### a*b*" with the resolved text "ab", the raw text "a*b*"
\* and no slugger: the id "a-b" comes from raw, the content is "ab".
C29_Witness ==
  \E r \in Requests :
    \E j \in DOMAIN calls[r] :
      /\ calls[r][j].text = Str(<<"a", "b">>)
      /\ calls[r][j].raw = Str(<<"a", "*", "b", "*">>)
      /\ calls[r][j].slugger = Undefined
      /\ ReadHeading(calls[r][j].html).id = <<"a", "-", "b">>
      /\ ReadHeading(calls[r][j].html).content = <<"a", "b">>

\* Called with a slugger for "### a*b*": the slugger is asked for the slug
\* of the raw text and its answer, "ab", is the id.
C29_WitnessSlugger ==
  \E r \in Requests :
    \E j \in DOMAIN calls[r] :
      /\ calls[r][j].slugger = Object
      /\ calls[r][j].raw = Str(<<"a", "*", "b", "*">>)
      /\ calls[r][j].asked = <<<<"a", "*", "b", "*">>>>
      /\ ReadHeading(calls[r][j].html).id = <<"a", "b">>

\* Called with the token object alone: the id is "object-object" and the
\* content, "[object Object]", is gone from the page sent.
C29_WitnessObject ==
  \E r \in Requests :
    /\ pc[r] = "done" /\ response[r][1].status = 200
    /\ Len(calls[r]) = 1
    /\ calls[r][1].text = Object
    /\ calls[r][1].raw = Undefined
    /\ ReadHeading(calls[r][1].html).id
         = <<"o", "b", "j", "e", "c", "t", "-", "o", "b", "j", "e", "c", "t">>
    /\ ReadHeading(calls[r][1].html).content = ObjectObject
    /\ Literals(response[r][1].body) = 0

\* The handling of request r is over: answered, thrown out of, or ended
\* with the process.
Over(r) == pc[r] \in {"done", "threw", "killed"}

\* The 500 answer and the answer carrying the full page of request r.
FailureResponse == [status |-> 500, body |-> <<ReadFailure>>]

PageResponse(r) ==
  [status |-> 200, body |-> <<PageHead>> \o htmlContent[r] \o <<PageTail>>]

C23_WitnessEngineFails ==
  \E r, q \in Requests :
    /\ pc[r] = "threw" /\ response[r] = <<>>
    /\ pc[q] = "done" /\ response[q] = <<PageResponse(q)>>

====
